---- MODULE Spec2Model ----
(***************************************************************************)
(* Model of refi.py: the amortization formula calcNumPayments, the         *)
(* month-by-month simulation `simulate` and the comparison                 *)
(* `compareRefiOptions`.                                                   *)
(*                                                                         *)
(* Numbers.  The program computes in Python floats.  The model computes in *)
(* exact rationals <<numerator, denominator>> (denominator > 0, lowest     *)
(* terms).  All inputs are drawn from values whose sums, products and      *)
(* quotients by 12 the model represents exactly.  The two transcendental   *)
(* functions are modelled as follows:                                      *)
(*   exp(x)  by 1 + x (first-order series); on the horizons of the model   *)
(*           it is positive, 1 at 0 and strictly decreasing in the         *)
(*           horizon, as exp(-INFLATION * horizon/12) is;                  *)
(*   log(x)  by its outcome: a ValueError for x <= 0, otherwise a value    *)
(*           that is kept symbolically as the argument x.                  *)
(***************************************************************************)
EXTENDS Integers, Sequences, FiniteSets, TLC

\* ---------------------------------------------------------------- bounds
MaxOptions == 2        \* longest options tuple passed to compareRefiOptions
MaxTerm == 2           \* largest RefinanceOption.term
MaxHorizon == 3        \* largest horizon passed directly to simulate
MaxCash == 2           \* largest monthlyCash passed directly to simulate
MaxRates == 4          \* longest growth-rate list passed directly to simulate
MaxMonthlyPayment == 3 \* largest monthlyPayment passed to calcNumPayments
MaxFees == 2           \* largest fees passed to calcNumPayments

Payments == {0, 1}              \* RefinanceOption.payment values
Costs == {0, 1, 2}              \* RefinanceOption.cost values
Rates == {0, 6}                 \* annual growth rates used in lists
ScalarRates == {-6, 0, 6}       \* annual growth rates passed as one float
AmountsFinanced == {0, 100, 200}
InterestPercents == {0, 6, 12}  \* interestRate = percent / 100

\* ------------------------------------------------------------ arithmetic
Abs(x) == IF x < 0 THEN -x ELSE x

Min(a, b) == IF a < b THEN a ELSE b

RECURSIVE GCD(_, _)
GCD(a, b) == IF b = 0 THEN a ELSE GCD(b, a % b)

LCM(a, b) == (a \div GCD(a, b)) * b

\* the rational n/d in lowest terms with a positive denominator (d # 0)
Rat(n, d) ==
    LET g == GCD(Abs(n), Abs(d))
        s == IF d < 0 THEN -1 ELSE 1
    IN  << (s * n) \div g, (s * d) \div g >>

Int2R(n) == << n, 1 >>

RAdd(a, b) ==
    LET l == LCM(a[2], b[2])
    IN  Rat(a[1] * (l \div a[2]) + b[1] * (l \div b[2]), l)

RNeg(a) == << -a[1], a[2] >>

RSub(a, b) == RAdd(a, RNeg(b))

RMul(a, b) == Rat(a[1] * b[1], a[2] * b[2])

\* a / b, b # 0
RDiv(a, b) == Rat(a[1] * b[2], a[2] * b[1])

RLess(a, b) ==
    LET l == LCM(a[2], b[2])
    IN  a[1] * (l \div a[2]) < b[1] * (l \div b[2])

RZero == Int2R(0)

\* math.exp, first-order series
Exp(x) == RAdd(Int2R(1), x)

\* ------------------------------------------------------------- constants
INFLATION == Rat(3, 100)

\* ------------------------------------------------------------ input sets
RefinanceOption(payment, term, cost) ==
    [payment |-> payment, term |-> term, cost |-> cost]

Options ==
    { RefinanceOption(p, t, c) : p \in Payments, t \in 0..MaxTerm, c \in Costs }

SeqsUpTo(S, n) == UNION { [1..k -> S] : k \in 0..n }

\* investmentGrowthRate: a float, or a list of floats
Scalar(r) == [isList |-> FALSE, rate |-> r, list |-> << >>]
List(l) == [isList |-> TRUE, rate |-> 0, list |-> l]

\* ---------------------------------------------------------------- results
NoResult == [kind |-> "none", val |-> RZero, opt |-> 0, msg |-> ""]
Value(v) == [kind |-> "value", val |-> v, opt |-> 0, msg |-> ""]
Raise(kind, msg) == [kind |-> kind, val |-> RZero, opt |-> 0, msg |-> msg]
ReturnOption(i) ==
    [kind |-> IF i = 0 THEN "None" ELSE "option", val |-> RZero, opt |-> i,
     msg |-> ""]

\* ------------------------------------------------------- applyMonthlyInterest
\* principal * (1 + annualRate/12); principal a rational, annualRate an integer
applyMonthlyInterest(principal, annualRate) ==
    RMul(principal, RAdd(Int2R(1), RDiv(Int2R(annualRate), Int2R(12))))

\* functools.reduce(applyMonthlyInterest, seq, initial)
RECURSIVE reduce(_, _)
reduce(seq, initial) ==
    IF seq = << >> THEN initial
    ELSE reduce(Tail(seq), applyMonthlyInterest(initial, Head(seq)))

\* the Python slice s[lo:hi] for 0 <= lo, 0 <= hi
Slice(s, lo, hi) == SubSeq(s, lo + 1, Min(hi, Len(s)))

\* ----------------------------------------------------------- calcNumPayments
\* m = monthlyPayment - fees
netPaymentNoFees(monthlyPayment, fees) == monthlyPayment

netPayment(monthlyPayment, fees) == monthlyPayment - fees

\* T = (1/r) * log(12*m / (12*m - r*P)); return 12 * T.
\* The value returned is 12 * (1/r) * log(val); val is kept in the result.
calcNumPayments(amountFinanced, interestRate, monthlyPayment, fees) ==
    LET r == interestRate
        m == netPayment(monthlyPayment, fees)
        P == amountFinanced
        num == Int2R(12 * m)
        den == RSub(Int2R(12 * m), RMul(r, Int2R(P)))
    IN  IF r = RZero THEN Raise("ZeroDivisionError", "division by zero")
        ELSE IF den = RZero THEN Raise("ZeroDivisionError", "division by zero")
        ELSE IF ~RLess(RZero, RDiv(num, den))
             THEN Raise("ValueError", "math domain error")
        ELSE Value(RDiv(num, den))

\* ------------------------------------------------------------------ simulate
\* lines 151-159: the rates the loop reads
resolveRates(investmentGrowthRate, horizon) ==
    IF investmentGrowthRate.isList THEN investmentGrowthRate.list
    ELSE [j \in 1..horizon |-> investmentGrowthRate.rate]

\* line 153
ratesTooShort(investmentGrowthRate, horizon) ==
    /\ investmentGrowthRate.isList
    /\ Len(investmentGrowthRate.list) < horizon

\* line 160
notEnoughCashOffByOne(monthlyCash, refiOption) ==
    monthlyCash + 1 < refiOption.payment

notEnoughCash(monthlyCash, refiOption) == monthlyCash < refiOption.payment

\* lines 151-164: the exception simulate raises before its loop, or NoResult
simulateEntry(refiOption, monthlyCash, investmentGrowthRate, horizon) ==
    IF ratesTooShort(investmentGrowthRate, horizon)
    THEN Raise("ValueError", "rates")
    ELSE IF notEnoughCash(monthlyCash, refiOption)
    THEN Raise("ValueError", "cash")
    ELSE NoResult

\* lines 168-170: the payment of one month, the cost included
monthPaymentThroughTerm(refiOption, month) ==
    (IF month <= refiOption.term THEN refiOption.payment ELSE 0)
    + (IF month = 0 THEN refiOption.cost ELSE 0)

monthPayment(refiOption, month) ==
    (IF month < refiOption.term THEN refiOption.payment ELSE 0)
    + (IF month = 0 THEN refiOption.cost ELSE 0)

\* line 171
netCash(refiOption, monthlyCash, month) ==
    monthlyCash - monthPayment(refiOption, month)

\* line 173: rates[month: horizon]
ratesFromNextMonth(rates, month, horizon) == Slice(rates, month + 1, horizon)

ratesFromToEnd(rates, month, horizon) == Slice(rates, month, Len(rates))

ratesFrom(rates, month, horizon) == Slice(rates, month, horizon)

\* lines 172-174: what one month adds to terminalWealth
monthWealth(refiOption, monthlyCash, rates, horizon, month) ==
    reduce(ratesFrom(rates, month, horizon),
           Int2R(netCash(refiOption, monthlyCash, month)))

\* lines 166-174: terminalWealth after the months month..horizon-1
RECURSIVE wealthFrom(_, _, _, _, _)
wealthFrom(refiOption, monthlyCash, rates, horizon, month) ==
    IF month >= horizon THEN RZero
    ELSE RAdd(monthWealth(refiOption, monthlyCash, rates, horizon, month),
              wealthFrom(refiOption, monthlyCash, rates, horizon, month + 1))

\* line 175
presentValue(terminalWealth, horizon) ==
    RMul(terminalWealth,
         Exp(RDiv(RMul(RNeg(INFLATION), Int2R(horizon)), Int2R(12))))

\* lines 151-199: a whole call of simulate
simulate(refiOption, monthlyCash, investmentGrowthRate, horizon) ==
    LET entry ==
            simulateEntry(refiOption, monthlyCash, investmentGrowthRate, horizon)
        rates == resolveRates(investmentGrowthRate, horizon)
    IN  IF entry.kind # "none" THEN entry
        ELSE Value(presentValue(
                 wealthFrom(refiOption, monthlyCash, rates, horizon, 0),
                 horizon))

\* -------------------------------------------------------- compareRefiOptions
RECURSIVE MaxOf(_)
MaxOf(S) ==
    LET x == CHOOSE y \in S : TRUE
    IN  IF S = {x} THEN x
        ELSE LET m == MaxOf(S \ {x}) IN IF x > m THEN x ELSE m

\* line 225
sharedCashOfFirst(refiOptions) == refiOptions[1].payment

sharedCash(refiOptions) ==
    MaxOf({ refiOptions[i].payment : i \in 1..Len(refiOptions) })

\* line 226
sharedHorizon(refiOptions) ==
    MaxOf({ refiOptions[i].term : i \in 1..Len(refiOptions) })

\* line 243: val > maxVal
isBetterOrEqual(val, maxVal) == ~RLess(val, maxVal)

isWorse(val, maxVal) == RLess(val, maxVal)

isBetter(val, maxVal) == RLess(maxVal, val)

\* ===================================================================== state
VARIABLES
    pc,                    \* "idle", "simLoop", "cmpLoop" or "done"
    call,                  \* the function called: "simulate", "compare", "numPayments"
    refiOption,            \* simulate's refiOption
    monthlyCash,           \* simulate's argument / compareRefiOptions' local
    investmentGrowthRate,  \* the growth-rate argument
    horizon,               \* simulate's argument / compareRefiOptions' local
    rates,                 \* simulate's local
    month,                 \* simulate's loop variable
    terminalWealth,        \* simulate's local
    netCashLog,            \* the netCash of every month simulate has run
    refiOptions,           \* compareRefiOptions' options tuple
    index,                 \* position of the for loop of compareRefiOptions
    maxVal,                \* compareRefiOptions' local
    maxOption,             \* compareRefiOptions' local: a position, 0 for None
    simCalls,              \* the calls of simulate compareRefiOptions has made
    numArgs,               \* calcNumPayments' arguments
    result                 \* what the call returned or raised

vars ==
    << pc, call, refiOption, monthlyCash, investmentGrowthRate, horizon, rates,
       month, terminalWealth, netCashLog, refiOptions, index, maxVal, maxOption,
       simCalls, numArgs, result >>

simVars == << refiOption, rates, month, terminalWealth, netCashLog >>

cmpVars == << refiOptions, index, maxVal, maxOption, simCalls >>

NoOption == RefinanceOption(0, 0, 0)

NoNumArgs ==
    [amountFinanced |-> 0, interestRate |-> RZero, monthlyPayment |-> 0,
     fees |-> 0]

Init ==
    /\ pc = "idle"
    /\ call = ""
    /\ refiOption = NoOption
    /\ monthlyCash = 0
    /\ investmentGrowthRate = Scalar(0)
    /\ horizon = 0
    /\ rates = << >>
    /\ month = 0
    /\ terminalWealth = RZero
    /\ netCashLog = << >>
    /\ refiOptions = << >>
    /\ index = 0
    /\ maxVal = RZero
    /\ maxOption = 0
    /\ simCalls = << >>
    /\ numArgs = NoNumArgs
    /\ result = NoResult

\* the growth-rate inputs of a direct call of simulate
SimGrowth ==
    { Scalar(r) : r \in ScalarRates }
    \cup { List(l) : l \in SeqsUpTo(Rates, MaxRates) }

\* the growth-rate inputs of compareRefiOptions
CmpGrowth ==
    { Scalar(r) : r \in ScalarRates }
    \cup { List(l) : l \in SeqsUpTo(Rates, MaxTerm) }

\* ------------------------------------------------------------------ simulate
\* simulate(refiOption, monthlyCash, investmentGrowthRate, horizon) up to its
\* loop: lines 151-166
CallSimulate ==
    /\ pc = "idle"
    /\ \E o \in Options, c \in 0..MaxCash, g \in SimGrowth, h \in 0..MaxHorizon :
         LET entry == simulateEntry(o, c, g, h)
         IN  /\ call' = "simulate"
             /\ refiOption' = o
             /\ monthlyCash' = c
             /\ investmentGrowthRate' = g
             /\ horizon' = h
             /\ month' = 0
             /\ terminalWealth' = RZero
             /\ netCashLog' = << >>
             /\ IF entry.kind # "none"
                THEN /\ pc' = "done"
                     /\ result' = entry
                     /\ rates' = IF g.isList THEN g.list ELSE resolveRates(g, h)
                ELSE /\ pc' = "simLoop"
                     /\ result' = NoResult
                     /\ rates' = resolveRates(g, h)
    /\ UNCHANGED << cmpVars, numArgs >>

\* one iteration of `for month in range(horizon)`: lines 167-174
SimMonth ==
    /\ pc = "simLoop"
    /\ month < horizon
    /\ netCashLog' = Append(netCashLog, netCash(refiOption, monthlyCash, month))
    /\ terminalWealth' =
           RAdd(terminalWealth,
                monthWealth(refiOption, monthlyCash, rates, horizon, month))
    /\ month' = month + 1
    /\ UNCHANGED << pc, call, refiOption, monthlyCash, investmentGrowthRate,
                    horizon, rates, cmpVars, numArgs, result >>

\* the loop is over: lines 175-199
SimReturn ==
    /\ pc = "simLoop"
    /\ month >= horizon
    /\ result' = Value(presentValue(terminalWealth, horizon))
    /\ pc' = "done"
    /\ UNCHANGED << call, refiOption, monthlyCash, investmentGrowthRate, horizon,
                    rates, month, terminalWealth, netCashLog, cmpVars, numArgs >>

\* -------------------------------------------------------- compareRefiOptions
\* compareRefiOptions(investmentGrowthRate, *refiOptions) up to its loop:
\* lines 225-235; max() of an empty tuple raises ValueError
CallCompare ==
    /\ pc = "idle"
    /\ \E g \in CmpGrowth, os \in SeqsUpTo(Options, MaxOptions) :
         /\ call' = "compare"
         /\ investmentGrowthRate' = g
         /\ refiOptions' = os
         /\ maxVal' = RZero
         /\ maxOption' = 0
         /\ simCalls' = << >>
         /\ IF os = << >>
            THEN /\ pc' = "done"
                 /\ result' = Raise("ValueError", "max() arg is an empty sequence")
                 /\ UNCHANGED << monthlyCash, horizon, index >>
            ELSE /\ pc' = "cmpLoop"
                 /\ monthlyCash' = sharedCash(os)
                 /\ horizon' = sharedHorizon(os)
                 /\ index' = 1
                 /\ result' = NoResult
    /\ UNCHANGED << simVars, numArgs >>

\* one iteration of `for option in refiOptions`: lines 236-244, the call of
\* simulate included; an exception of simulate ends compareRefiOptions
CmpOption ==
    /\ pc = "cmpLoop"
    /\ index <= Len(refiOptions)
    /\ LET option == refiOptions[index]
           val == simulate(option, monthlyCash, investmentGrowthRate, horizon)
       IN  /\ simCalls' =
                  Append(simCalls,
                         [option |-> index, monthlyCash |-> monthlyCash,
                          horizon |-> horizon, outcome |-> val])
           /\ IF val.kind # "value"
              THEN /\ pc' = "done"
                   /\ result' = val
                   /\ UNCHANGED << index, maxOption >>
              ELSE /\ maxOption' =
                          IF isBetter(val.val, maxVal) THEN index ELSE maxOption
                   /\ index' = index + 1
                   /\ UNCHANGED << pc, result >>
    /\ UNCHANGED << call, monthlyCash, investmentGrowthRate, horizon, refiOptions,
                    maxVal, simVars, numArgs >>

\* the loop is over: line 245
CmpReturn ==
    /\ pc = "cmpLoop"
    /\ index > Len(refiOptions)
    /\ result' = ReturnOption(maxOption)
    /\ pc' = "done"
    /\ UNCHANGED << call, monthlyCash, investmentGrowthRate, horizon, refiOptions,
                    index, maxVal, maxOption, simCalls, simVars, numArgs >>

\* ----------------------------------------------------------- calcNumPayments
CallNumPayments ==
    /\ pc = "idle"
    /\ \E P \in AmountsFinanced, k \in InterestPercents,
          mp \in 0..MaxMonthlyPayment, f \in 0..MaxFees :
         /\ numArgs' = [amountFinanced |-> P, interestRate |-> Rat(k, 100),
                        monthlyPayment |-> mp, fees |-> f]
         /\ result' = calcNumPayments(P, Rat(k, 100), mp, f)
    /\ call' = "numPayments"
    /\ pc' = "done"
    /\ UNCHANGED << monthlyCash, investmentGrowthRate, horizon, simVars, cmpVars >>

\* ------------------------------------------------------------ specifications
NextSimulate == CallSimulate \/ SimMonth \/ SimReturn

NextCompare == CallCompare \/ CmpOption \/ CmpReturn

NextNumPayments == CallNumPayments

SpecSimulate == Init /\ [][NextSimulate]_vars

SpecCompare == Init /\ [][NextCompare]_vars

SpecNumPayments == Init /\ [][NextNumPayments]_vars

\* ==================================================================== claims
RLeq(a, b) == ~RLess(b, a)

SimulateCalled == call = "simulate"

SimulateReturned == call = "simulate" /\ pc = "done" /\ result.kind = "value"

CompareCalled == call = "compare" /\ refiOptions # << >>

\* compareRefiOptions has returned (an option or None)
CompareReturned ==
    call = "compare" /\ pc = "done" /\ result.kind \in {"option", "None"}

Positions == 1..Len(refiOptions)

\* the largest payment and the largest term of the options, stated directly
IsMaxPayment(c) ==
    /\ \A i \in Positions : refiOptions[i].payment <= c
    /\ \E i \in Positions : refiOptions[i].payment = c

IsMaxTerm(h) ==
    /\ \A i \in Positions : refiOptions[i].term <= h
    /\ \E i \in Positions : refiOptions[i].term = h

\* the present value simulate gives the option at position i under the shared
\* budget and horizon
PV(i) ==
    simulate(refiOptions[i], sharedCash(refiOptions), investmentGrowthRate,
             sharedHorizon(refiOptions)).val

Positive(v) == RLess(RZero, v)

\* C1: when some option has a present value > 0, compareRefiOptions returns an
\* option whose present value no other option's present value exceeds.
C1_ReturnsGreatest ==
    (CompareReturned /\ \E i \in Positions : Positive(PV(i)))
    => /\ result.kind = "option"
       /\ \A j \in Positions : RLeq(PV(j), PV(result.opt))

Dominates(a, b) ==
    a.payment < b.payment /\ a.term < b.term /\ a.cost < b.cost

NonNegativeGrowth ==
    IF investmentGrowthRate.isList
    THEN \A j \in 1..Len(investmentGrowthRate.list) :
             investmentGrowthRate.list[j] >= 0
    ELSE investmentGrowthRate.rate >= 0

\* compareRefiOptions has returned for the two options at positions a and b,
\* the first dominating the second, and a non-negative growth rate
DominantPair(a, b) ==
    /\ CompareReturned
    /\ Len(refiOptions) = 2
    /\ a # b
    /\ Dominates(refiOptions[a], refiOptions[b])
    /\ NonNegativeGrowth

C5_NotEnoughCashRaises ==
    (SimulateCalled /\ monthlyCash < refiOption.payment)
    => /\ pc = "done"
       /\ result.kind = "ValueError"
       /\ netCashLog = << >>
       /\ month = 0

C5_Witness ==
    /\ SimulateCalled
    /\ pc = "done"
    /\ monthlyCash < refiOption.payment
    /\ horizon >= 1
    /\ ~investmentGrowthRate.isList
    /\ result = Raise("ValueError", "cash")

\* C6: a call of simulate with a list of rates shorter than horizon ends in
\* the ValueError about the list, before any month; a list of length >=
\* horizon never does, and the call ends as the call with the list cut to its
\* first horizon entries.
C6_RateListLength ==
    (SimulateCalled /\ investmentGrowthRate.isList)
    => IF Len(investmentGrowthRate.list) < horizon
       THEN /\ pc = "done"
            /\ result = Raise("ValueError", "rates")
            /\ netCashLog = << >>
       ELSE /\ result.msg # "rates"
            /\ pc = "done"
               => result =
                      simulate(refiOption, monthlyCash,
                               List(SubSeq(investmentGrowthRate.list, 1, horizon)),
                               horizon)

C6_Witness ==
    /\ SimulateReturned
    /\ investmentGrowthRate.isList
    /\ horizon >= 1
    /\ Len(investmentGrowthRate.list) > horizon
    /\ investmentGrowthRate.list[horizon + 1] = 6
    /\ monthlyCash > refiOption.payment

\* simulate has returned for monthlyCash = payment, term >= horizon >= 1
BudgetEqualsPayment ==
    /\ SimulateReturned
    /\ monthlyCash = refiOption.payment
    /\ refiOption.term >= horizon
    /\ horizon >= 1

\* the discount of line 175, stated for the model's exp
Discounted(wealth, h) == RMul(wealth, RSub(Int2R(1), Rat(3 * h, 1200)))

\* C7 as stated: with monthlyCash = payment and term >= horizon = H, the
\* terminal wealth is -cost compounded H-1 times, and the value returned is
\* that amount discounted.
C7_CostCompoundedHMinus1 ==
    BudgetEqualsPayment
    => LET w == reduce(SubSeq(rates, 2, horizon), Int2R(-refiOption.cost))
       IN  terminalWealth = w /\ result.val = Discounted(w, horizon)

\* C7 amended: with monthlyCash = payment and term >= horizon = H >= 1, the
\* terminal wealth is -cost compounded H times (with the rates of the months
\* 0..H-1), and the value returned is that amount discounted.
C7_CostCompoundedH ==
    BudgetEqualsPayment
    => LET w == reduce(SubSeq(rates, 1, horizon), Int2R(-refiOption.cost))
       IN  terminalWealth = w /\ result.val = Discounted(w, horizon)

C7_Witness ==
    /\ BudgetEqualsPayment
    /\ horizon >= 2
    /\ refiOption.cost > 0
    /\ refiOption.payment > 0
    /\ investmentGrowthRate = Scalar(6)

\* calcNumPayments was called with r > 0 and P > 0
NumPaymentsCalled ==
    /\ call = "numPayments"
    /\ pc = "done"
    /\ Positive(numArgs.interestRate)
    /\ numArgs.amountFinanced > 0

NetPaymentOf == numArgs.monthlyPayment - numArgs.fees

\* 12*m' <= r*P
CannotAmortize ==
    RLeq(Int2R(12 * NetPaymentOf),
         RMul(numArgs.interestRate, Int2R(numArgs.amountFinanced)))

NumPaymentsFailed == result.kind \in {"ValueError", "ZeroDivisionError"}

\* C8 as stated: for r > 0 and P > 0, calcNumPayments fails whenever
\* 12*m' <= r*P, m' = 0 and m' < 0 included.
C8_FailsWhenCannotAmortize ==
    (NumPaymentsCalled /\ CannotAmortize) => NumPaymentsFailed

\* C8 amended: for r > 0 and P > 0, calcNumPayments fails whenever
\* 0 <= 12*m' <= r*P, and otherwise (m' < 0 included) returns a number.
C8_FailsIffZeroToInterest ==
    NumPaymentsCalled
    => (NumPaymentsFailed <=> (NetPaymentOf >= 0 /\ CannotAmortize))

C8_Witness ==
    /\ NumPaymentsCalled
    /\ NetPaymentOf > 0
    /\ numArgs.fees > 0
    /\ CannotAmortize
    /\ result = Raise("ValueError", "math domain error")

\* C9: the net cash of month j of a call of simulate is monthlyCash, less the
\* payment if j < term, less the cost if j = 0; a call that returns has run
\* the months 0..horizon-1.
C9_NetCashPerMonth ==
    SimulateCalled
    => /\ \A j \in 0..(Len(netCashLog) - 1) :
              netCashLog[j + 1] =
                  monthlyCash
                  - (IF j < refiOption.term THEN refiOption.payment ELSE 0)
                  - (IF j = 0 THEN refiOption.cost ELSE 0)
       /\ Len(netCashLog) = month
       /\ SimulateReturned => Len(netCashLog) = horizon

C9_Witness ==
    /\ SimulateReturned
    /\ horizon >= 3
    /\ refiOption.term \in 1..(horizon - 1)
    /\ refiOption.payment > 0
    /\ refiOption.cost > 0

\* the calls of simulate made so far are for the options 1, 2, ... in order,
\* each with the largest payment as budget and the largest term as horizon,
\* and none failed for want of cash
CallsInOrder ==
    /\ Len(simCalls) <= Len(refiOptions)
    /\ \A k \in 1..Len(simCalls) :
           /\ simCalls[k].option = k
           /\ IsMaxPayment(simCalls[k].monthlyCash)
           /\ IsMaxTerm(simCalls[k].horizon)
           /\ simCalls[k].outcome # Raise("ValueError", "cash")

\* C10 as stated: every call of compareRefiOptions with options calls simulate
\* once per option, in order, with the shared budget and horizon.
C10_OncePerOption ==
    (CompareCalled /\ pc = "done")
    => (CallsInOrder /\ Len(simCalls) = Len(refiOptions))

\* C10 amended: compareRefiOptions calls simulate for the options in input
\* order with the shared budget and horizon, and no call fails for want of
\* cash; a call of compareRefiOptions that returns has called simulate once
\* per option; one that raises was given a rate list shorter than the longest
\* term and stopped at the first call of simulate.
C10_OncePerOptionIfReturns ==
    CompareCalled
    => /\ CallsInOrder
       /\ CompareReturned => Len(simCalls) = Len(refiOptions)
       /\ (pc = "done" /\ ~CompareReturned)
          => /\ ratesTooShort(investmentGrowthRate, horizon)
             /\ Len(simCalls) = 1
             /\ result = Raise("ValueError", "rates")

C10_Witness ==
    /\ CompareReturned
    /\ Len(refiOptions) = 2
    /\ Len(simCalls) = 2
    /\ refiOptions[1].payment > refiOptions[2].payment
    /\ refiOptions[1].term < refiOptions[2].term

====
